---- MODULE Spec2Model ----
(***************************************************************************)
(* Payment ledger of the school-administration back end: the Payment and   *)
(* Enrollment tables and the request handlers that write them              *)
(* (routes/payments.js = src/unnamed/part_002 lines 739-1356,              *)
(* controllers/conektaController.js, routes/enrollments.js, and the        *)
(* Sequelize models src/unnamed/part_004 and src/unnamed/part_005).        *)
(*                                                                         *)
(* Amounts are whole pesos.  Every handler is one action; the handlers of  *)
(* POST /payments and of the Stripe webhook are also given await by await  *)
(* (SpecConc) because no transaction surrounds their create / sum / update *)
(* sequence.  Payment.sum over no rows is taken as 0.                      *)
(***************************************************************************)
EXTENDS Integers, Sequences, FiniteSets, TLC

\* ---------------------------------------------------------------- bounds
MaxEnrollments == 1
MaxPayments == 2
MaxIntents == 1
MaxOrders == 1
MaxRequests == 2

\* ------------------------------------------------------------ input sets
Students == {"s1"}
Courses == {"c1"}
TotalAmounts == {1500}
DiscountAmounts == {0, 500}
PaymentAmounts == {500, 1000}
RefundAmounts == {400, 2000}
RevisedAmounts == {1000}
PaymentTypes == {"partial", "refund"}
CoursePrices == {1500}

\* a column that holds no value (externalPaymentId before the gateway answers)
NULL == 0

VARIABLES
    enrollments,   \* the enrollments table: a sequence of rows, id = index
    payments,      \* the payments table: a sequence of rows, id = index
    intents,       \* payment intents held by Stripe: a sequence, id = index
    refundedOnce,  \* history: per payment, whether a refund of it has succeeded
    last,          \* the last handler that answered: [op, id, http, gateway, repeat]
    requests,      \* handlers in flight between two awaits (SpecConc only)
    orders,        \* orders held by Conekta: a sequence, id = index
    mail           \* how the confirmation e-mail of the last handler ended

vars == <<enrollments, payments, intents, refundedOnce, last, requests, orders,
          mail>>

EnrollmentIds == 1..MaxEnrollments
PaymentIds == 1..MaxPayments
IntentIds == 1..MaxIntents
OrderIds == 1..MaxOrders

\* `TXN-${Date.now()}-${random}`: one fresh value per created row
GeneratedTxn(n) == <<"TXN", n>>
\* a Conekta order id, as carried by order.paid / order.expired / charge.failed
OrderTxn(k) == <<"ord", k>>

\* stripe.paymentIntents.create({amount: Math.round(amount * 100)})
ToCents(amount) == amount * 100
\* amount: paymentIntent.amount / 100
FromCents(cents) == cents \div 100

RECURSIVE SumUpTo(_, _, _)
SumUpTo(pays, eid, n) ==
    IF n = 0 THEN 0
    ELSE SumUpTo(pays, eid, n - 1)
         + (IF pays[n].enrollmentId = eid /\ pays[n].status = "completed"
            THEN pays[n].amount ELSE 0)

\* Payment.sum('amount', {where: {enrollmentId, status: 'completed'}})
PaymentSum(pays, eid) == SumUpTo(pays, eid, Len(pays))

PaymentStatusFor(totalAmount, totalPaid) ==
    IF totalAmount - totalPaid <= 0 THEN "completed"
    ELSE IF totalPaid > 0 THEN "partial"
    ELSE "pending"

\* a recomputation that adds the sum to the stored paidAmount
Reconciled_Accumulate(enrs, eid, totalAmountRead, totalPaid) ==
    [enrs EXCEPT ![eid].paidAmount = @ + totalPaid,
                 ![eid].paymentStatus =
                     PaymentStatusFor(totalAmountRead,
                                      enrs[eid].paidAmount + totalPaid)]

\* enrollment.update({paidAmount: totalPaid, paymentStatus, lastPaymentDate}):
\* `enrollment` is the instance read at the start of the handler, so
\* totalAmount is the value read then; only the named columns are written
Reconciled(enrs, eid, totalAmountRead, totalPaid) ==
    [enrs EXCEPT ![eid].paidAmount = totalPaid,
                 ![eid].paymentStatus = PaymentStatusFor(totalAmountRead, totalPaid)]

\* a new row of the payments table with the model's defaults
NewPayment(eid, amount, method, type, status, ext, n) ==
    [enrollmentId |-> eid, amount |-> amount, paymentMethod |-> method,
     paymentType |-> type, status |-> status,
     transactionId |-> GeneratedTxn(n), externalPaymentId |-> ext,
     refundAmount |-> 0]

RequestSlots == 1..MaxRequests
Idle == [pc |-> "idle", op |-> "none", eid |-> 0, pid |-> 0, amount |-> 0,
         status |-> "none", ext |-> NULL, totalAmountRead |-> 0, totalPaid |-> 0]

WebhookOps == {"stripeSucceeded", "stripeFailed", "conektaOrderPaid",
               "conektaOrderExpired", "conektaChargeFailed"}
RefundOps == {"refundPayment", "conektaRefund"}

\* what the handler answered: res.status(http); gateway tells whether the
\* processor was called and how the call ended; repeat marks a webhook event
\* that is the event (kind and id) the previous handler acknowledged
Response(op, id, http, gateway) ==
    [op |-> op, id |-> id, http |-> http, gateway |-> gateway,
     repeat |-> (op \in WebhookOps /\ last.op = op /\ last.id = id
                 /\ last.http = 200)]

\* await sendPaymentConfirmationEmail(...): delivered, or rejected
MailOutcomes == {"sent", "failed"}

\* a handler that runs from request to response with no other in between and
\* sends no e-mail
Answer(op, id, http, gateway) ==
    /\ last' = Response(op, id, http, gateway)
    /\ mail' = "none"
    /\ UNCHANGED <<requests, orders>>

Init ==
    /\ enrollments = <<>>
    /\ payments = <<>>
    /\ intents = <<>>
    /\ refundedOnce = <<>>
    /\ last = [op |-> "none", id |-> 0, http |-> 0, gateway |-> "none",
               repeat |-> FALSE]
    /\ requests = [r \in RequestSlots |-> Idle]
    /\ orders = <<>>
    /\ mail = "none"

\* ------------------------------------------------------------ enrollments
\* POST /enrollments
CreateEnrollment(student, course, total, discount, status) ==
    /\ LET eid == Len(enrollments) + 1
           existing == \E e \in DOMAIN enrollments :
               /\ enrollments[e].studentId = student
               /\ enrollments[e].courseId = course
               /\ enrollments[e].status \in {"pending", "active"}
           indexClash == \E e \in DOMAIN enrollments :
               /\ enrollments[e].studentId = student
               /\ enrollments[e].courseId = course
       IN IF existing
          THEN /\ Answer("createEnrollment", 0, 409, "none")
               /\ UNCHANGED <<enrollments, payments, intents, refundedOnce>>
          ELSE IF indexClash
          THEN /\ Answer("createEnrollment", 0, 500, "none")
               /\ UNCHANGED <<enrollments, payments, intents, refundedOnce>>
          ELSE /\ Len(enrollments) < MaxEnrollments
               /\ enrollments' = Append(enrollments,
                     [studentId |-> student, courseId |-> course,
                      status |-> status, totalAmount |-> total,
                      paidAmount |-> 0, discountAmount |-> discount,
                      paymentStatus |-> "pending"])
               /\ Answer("createEnrollment", eid, 201, "none")
               /\ UNCHANGED <<payments, intents, refundedOnce>>

\* the bodies of PUT /enrollments/:id that are tried; a column the body does
\* not name carries "absent" or -1
EnrollmentBody(status, totalAmount) ==
    [status |-> status, totalAmount |-> totalAmount]
EnrollmentBodies ==
    {EnrollmentBody("suspended", -1), EnrollmentBody("active", -1)}
    \cup {EnrollmentBody("absent", t) : t \in RevisedAmounts}

\* PUT /enrollments/:id: enrollment.update(req.body), no check on the body
UpdateEnrollment(eid, body) ==
    /\ UNCHANGED <<payments, intents, refundedOnce>>
    /\ IF eid \notin DOMAIN enrollments
       THEN /\ Answer("updateEnrollment", eid, 404, "none")
            /\ UNCHANGED enrollments
       ELSE /\ enrollments' = [enrollments EXCEPT
                   ![eid].status =
                       IF body.status = "absent" THEN @ ELSE body.status,
                   ![eid].totalAmount =
                       IF body.totalAmount < 0 THEN @ ELSE body.totalAmount]
            /\ Answer("updateEnrollment", eid, 200, "none")

\* a cancel that does not look at the status it finds
CancelEnrollment_Unguarded(eid) ==
    /\ UNCHANGED <<payments, intents, refundedOnce>>
    /\ IF eid \notin DOMAIN enrollments
       THEN /\ Answer("cancelEnrollment", eid, 404, "none")
            /\ UNCHANGED enrollments
       ELSE /\ enrollments' = [enrollments EXCEPT ![eid].status = "cancelled"]
            /\ Answer("cancelEnrollment", eid, 200, "none")

\* PUT /enrollments/:id/cancel
CancelEnrollment(eid) ==
    /\ UNCHANGED <<payments, intents, refundedOnce>>
    /\ IF eid \notin DOMAIN enrollments
       THEN /\ Answer("cancelEnrollment", eid, 404, "none")
            /\ UNCHANGED enrollments
       ELSE IF enrollments[eid].status \in {"cancelled", "completed"}
       THEN /\ Answer("cancelEnrollment", eid, 400, "none")
            /\ UNCHANGED enrollments
       ELSE /\ enrollments' = [enrollments EXCEPT ![eid].status = "cancelled"]
            /\ Answer("cancelEnrollment", eid, 200, "none")

\* PUT /enrollments/:id/complete
CompleteEnrollment(eid) ==
    /\ UNCHANGED <<payments, intents, refundedOnce>>
    /\ IF eid \notin DOMAIN enrollments
       THEN /\ Answer("completeEnrollment", eid, 404, "none")
            /\ UNCHANGED enrollments
       ELSE IF enrollments[eid].status \in {"completed", "cancelled"}
       THEN /\ Answer("completeEnrollment", eid, 400, "none")
            /\ UNCHANGED enrollments
       ELSE /\ enrollments' = [enrollments EXCEPT ![eid].status = "completed"]
            /\ Answer("completeEnrollment", eid, 200, "none")

\* -------------------------------------------------------- manual payments
\* POST /payments (admin): req.body is spread into Payment.create, so a
\* status in the body is stored; without one the column default is 'pending'
CreatePayment(eid, amount, method, type, status) ==
    IF eid \notin DOMAIN enrollments
    THEN /\ Answer("createPayment", eid, 404, "none")
         /\ UNCHANGED <<enrollments, payments, intents, refundedOnce>>
    ELSE IF enrollments[eid].status # "active"
    THEN /\ Answer("createPayment", eid, 400, "none")
         /\ UNCHANGED <<enrollments, payments, intents, refundedOnce>>
    ELSE /\ Len(payments) < MaxPayments
         /\ LET pid == Len(payments) + 1
                created == Append(payments,
                    NewPayment(eid, amount, method, type, status, NULL, pid))
                totalPaid == PaymentSum(created, eid)
            IN /\ payments' = created
               /\ refundedOnce' = Append(refundedOnce, FALSE)
               /\ enrollments' = Reconciled(enrollments, eid,
                                     enrollments[eid].totalAmount, totalPaid)
               /\ Answer("createPayment", pid, 201, "none")
         /\ UNCHANGED intents

\* the bodies of PUT /payments/:id that are tried; a column the body does not
\* name carries the marker Absent
AbsentTxn == <<"absent", 0>>
UpdateBody(status, txn, refundAmount) ==
    [status |-> status, transactionId |-> txn, refundAmount |-> refundAmount]
UpdateBodies ==
    {UpdateBody("completed", AbsentTxn, -1)}
    \cup {UpdateBody("absent", OrderTxn(k), -1) : k \in OrderIds}
    \cup {UpdateBody("refunded", AbsentTxn, r) : r \in RefundAmounts \ {400}}

\* payment.update(updateData)
Updated(row, body) ==
    [row EXCEPT
       !.status = IF body.status = "absent" THEN @ ELSE body.status,
       !.transactionId =
           IF body.transactionId = AbsentTxn THEN @ ELSE body.transactionId,
       !.refundAmount =
           IF body.refundAmount < 0 THEN @ ELSE body.refundAmount]

\* PUT /payments/:id (admin): no check on the body, no recomputation
UpdatePayment(pid, body) ==
    /\ UNCHANGED <<enrollments, intents, refundedOnce>>
    /\ IF pid \notin DOMAIN payments
       THEN /\ Answer("updatePayment", pid, 404, "none")
            /\ UNCHANGED payments
       ELSE IF /\ body.transactionId # AbsentTxn
               /\ \E q \in DOMAIN payments :
                      q # pid /\ payments[q].transactionId = body.transactionId
       THEN \* unique index on transactionId: the UPDATE throws
            /\ Answer("updatePayment", pid, 500, "none")
            /\ UNCHANGED payments
       ELSE /\ payments' = [payments EXCEPT ![pid] = Updated(@, body)]
            /\ Answer("updatePayment", pid, 200, "none")

\* ------------------------------------------------------------------ Stripe
\* POST /payments/stripe/create-payment-intent: no Payment row is written
CreatePaymentIntent(eid, amount, gatewayOk) ==
    /\ UNCHANGED <<enrollments, payments, refundedOnce>>
    /\ IF eid \notin DOMAIN enrollments
       THEN /\ Answer("createPaymentIntent", eid, 404, "none")
            /\ UNCHANGED intents
       ELSE IF ~gatewayOk
       THEN /\ Answer("createPaymentIntent", eid, 500, "failed")
            /\ UNCHANGED intents
       ELSE /\ Len(intents) < MaxIntents
            /\ intents' = Append(intents,
                   [enrollmentId |-> eid, amount |-> ToCents(amount)])
            /\ Answer("createPaymentIntent", Len(intents) + 1, 200, "ok")

\* a PaymentIntent of the Stripe account that this server did not create: its
\* metadata.enrollmentId is absent (NULL) or is the id of no Enrollment row
ForeignIntent(eid, amount) ==
    /\ eid \notin DOMAIN enrollments
    /\ Len(intents) < MaxIntents
    /\ intents' = Append(intents,
           [enrollmentId |-> eid, amount |-> ToCents(amount)])
    /\ UNCHANGED <<enrollments, payments, refundedOnce, last, requests,
                   orders, mail>>

\* a find-or-create that never finds
FoundByExternalId_NoLookup(pays, ext) == FALSE

\* Payment.findOne({where: {externalPaymentId}}): some row with that id
FoundByExternalId(pays, ext) ==
    \E p \in DOMAIN pays : pays[p].externalPaymentId = ext

\* POST /payments/stripe/webhook, case 'payment_intent.succeeded'
StripeSucceeded(pi) ==
    /\ pi \in DOMAIN intents
    /\ UNCHANGED intents
    /\ IF FoundByExternalId(payments, pi)
          \/ intents[pi].enrollmentId \notin DOMAIN enrollments
       THEN /\ Answer("stripeSucceeded", pi, 200, "none")
            /\ UNCHANGED <<enrollments, payments, refundedOnce>>
       ELSE /\ Len(payments) < MaxPayments
            /\ LET eid == intents[pi].enrollmentId
                   pid == Len(payments) + 1
                   created == Append(payments,
                       NewPayment(eid, FromCents(intents[pi].amount), "stripe",
                                  "partial", "completed", pi, pid))
                   totalPaid == PaymentSum(created, eid)
               IN /\ payments' = created
                  /\ refundedOnce' = Append(refundedOnce, FALSE)
                  /\ enrollments' = Reconciled(enrollments, eid,
                                        enrollments[eid].totalAmount, totalPaid)
                  /\ Answer("stripeSucceeded", pi, 200, "none")

\* an update whose where clause is dropped
FailedByExternalId_All(pays, ext) ==
    [p \in DOMAIN pays |-> [pays[p] EXCEPT !.status = "failed"]]

\* Payment.update({status: 'failed'}, {where: {externalPaymentId}})
FailedByExternalId(pays, ext) ==
    [p \in DOMAIN pays |->
        IF pays[p].externalPaymentId = ext
        THEN [pays[p] EXCEPT !.status = "failed"] ELSE pays[p]]

\* POST /payments/stripe/webhook, case 'payment_intent.payment_failed'
StripeFailed(pi) ==
    /\ pi \in DOMAIN intents
    /\ payments' = FailedByExternalId(payments, pi)
    /\ Answer("stripeFailed", pi, 200, "none")
    /\ UNCHANGED <<enrollments, intents, refundedOnce>>

\* the signature header of a delivery: computed with the endpoint secret,
\* computed without it, or not sent
Signatures == {"valid", "forged", "missing"}

StripeEventTypes ==
    {"payment_intent.succeeded", "payment_intent.payment_failed", "other"}

StripeOp(type) ==
    IF type = "payment_intent.succeeded" THEN "stripeSucceeded"
    ELSE IF type = "payment_intent.payment_failed" THEN "stripeFailed"
    ELSE "stripeOther"

\* stripe.webhooks.constructEvent(req.body, sig, secret) returns the event
ConstructEventAccepts(signature) == signature = "valid"

\* POST /payments/stripe/webhook: constructEvent, then the switch inside
\* try { ... res.json({received: true}) } catch { res.status(500) };
\* processingOk = FALSE: the first query of the case throws
StripeWebhook(signature, type, pi, processingOk) ==
    IF ~ConstructEventAccepts(signature)
    THEN /\ Answer(StripeOp(type), pi, 400, "none")
         /\ UNCHANGED <<enrollments, payments, intents, refundedOnce>>
    ELSE IF type = "other"
    THEN /\ Answer(StripeOp(type), pi, 200, "none")
         /\ UNCHANGED <<enrollments, payments, intents, refundedOnce>>
    ELSE IF ~processingOk
    THEN /\ Answer(StripeOp(type), pi, 500, "none")
         /\ UNCHANGED <<enrollments, payments, intents, refundedOnce>>
    ELSE IF type = "payment_intent.succeeded"
    THEN StripeSucceeded(pi)
    ELSE StripeFailed(pi)

\* ----------------------------------------------------------------- Conekta
\* Payment.findOne({where: {transactionId: orderId}}): the id of the row, or 0
FindByTransactionId(pays, txn) ==
    IF \E p \in DOMAIN pays : pays[p].transactionId = txn
    THEN CHOOSE p \in DOMAIN pays : pays[p].transactionId = txn
    ELSE 0

\* payment.status = status; await payment.save()
WithStatus(pays, pid, status) ==
    IF pid = 0 THEN pays ELSE [pays EXCEPT ![pid].status = status]

\* a handler with no try/catch of its own: a rejected e-mail leaves it
Rethrown_NoCatch(outcome) == outcome = "failed"

\* handleOrderPaid: try { ...; await sendPaymentConfirmationEmail(...) }
\* catch (error) { console.error(...) }: no error leaves the handler
Rethrown(outcome) == FALSE

\* ConektaController.webhook -> handleOrderPaid: the e-mail is sent after
\* payment.save(), when the row and its enrollment were found, and ends as
\* emailed; an error that left the handler would reach the catch of webhook,
\* which answers 500
ConektaOrderPaid(order, emailed) ==
    LET pid == FindByTransactionId(payments, OrderTxn(order))
        outcome == IF pid # 0 /\ payments[pid].enrollmentId \in DOMAIN enrollments
                   THEN emailed ELSE "none"
    IN /\ payments' = WithStatus(payments, pid, "completed")
       /\ mail' = outcome
       /\ last' = Response("conektaOrderPaid", order,
                           IF Rethrown(outcome) THEN 500 ELSE 200, "none")
       /\ UNCHANGED <<enrollments, intents, refundedOnce, requests, orders>>

\* ConektaController.webhook -> handleOrderExpired
ConektaOrderExpired(order) ==
    /\ payments' = WithStatus(payments,
                       FindByTransactionId(payments, OrderTxn(order)), "failed")
    /\ Answer("conektaOrderExpired", order, 200, "none")
    /\ UNCHANGED <<enrollments, intents, refundedOnce>>

\* ConektaController.webhook -> handleChargeFailed
ConektaChargeFailed(order) ==
    /\ payments' = WithStatus(payments,
                       FindByTransactionId(payments, OrderTxn(order)), "failed")
    /\ Answer("conektaChargeFailed", order, 200, "none")
    /\ UNCHANGED <<enrollments, intents, refundedOnce>>

ConektaEventTypes == {"order.paid", "order.expired", "charge.failed", "other"}

ConektaOp(type) ==
    IF type = "order.paid" THEN "conektaOrderPaid"
    ELSE IF type = "order.expired" THEN "conektaOrderExpired"
    ELSE IF type = "charge.failed" THEN "conektaChargeFailed"
    ELSE "conektaOther"

\* const signature = req.headers['conekta-signature']; if (!signature) 400:
\* the header is looked for and never compared with anything
SignaturePresent(signature) == signature # "missing"

\* ConektaController.webhook; processingOk = FALSE: a query of the event's
\* handler throws, which the handler's own try/catch logs and drops
ConektaWebhook(signature, type, order, processingOk) ==
    IF ~SignaturePresent(signature)
    THEN /\ Answer(ConektaOp(type), order, 400, "none")
         /\ UNCHANGED <<enrollments, payments, intents, refundedOnce>>
    ELSE IF type = "other" \/ ~processingOk
    THEN /\ Answer(ConektaOp(type), order, 200, "none")
         /\ UNCHANGED <<enrollments, payments, intents, refundedOnce>>
    ELSE IF type = "order.paid"
    THEN \E emailed \in MailOutcomes : ConektaOrderPaid(order, emailed)
    ELSE IF type = "order.expired" THEN ConektaOrderExpired(order)
    ELSE ConektaChargeFailed(order)

\* a column the object given to Payment.create does not name
Undefined == "undefined"

\* order.charges.data[0].status of a created order, or "error" when
\* Conekta.Order.create throws
CardCharges == {"paid", "declined", "error"}
VoucherCharges == {"pending_payment", "error"}

\* order.charges.data[0].status === 'paid' ? 'completed' : 'pending'
StatusOfCharge(charge) == IF charge = "paid" THEN "completed" ELSE "pending"

\* the object the Conekta handlers give to Payment.create: it names `method`
\* and `studentId`, which are not columns, and names neither paymentMethod nor
\* paymentType nor processedBy
ConektaPaymentValues(eid, price, status, order) ==
    [enrollmentId |-> eid, amount |-> price, paymentMethod |-> Undefined,
     paymentType |-> Undefined, processedBy |-> Undefined, status |-> status,
     transactionId |-> OrderTxn(order), externalPaymentId |-> NULL,
     refundAmount |-> 0]

\* allowNull: false on a column with no defaultValue: the insert is refused
NotNullViolation(values) ==
    Undefined \in {values.paymentMethod, values.paymentType, values.processedBy}

\* the row Payment.create stores for accepted values
InsertedRow(values) ==
    [enrollmentId |-> values.enrollmentId, amount |-> values.amount,
     paymentMethod |-> values.paymentMethod, paymentType |-> values.paymentType,
     status |-> values.status, transactionId |-> values.transactionId,
     externalPaymentId |-> values.externalPaymentId,
     refundAmount |-> values.refundAmount]

\* the common body of the four handlers: Enrollment.findByPk, 404 if absent;
\* Conekta.Order.create; Payment.create; res.json; catch -> 500
ConektaPay(op, eid, price, charge, status) ==
    /\ UNCHANGED <<enrollments, intents, requests>>
    /\ IF eid \notin DOMAIN enrollments
       THEN /\ last' = Response(op, eid, 404, "none")
            /\ mail' = "none"
            /\ UNCHANGED <<payments, refundedOnce, orders>>
       ELSE IF charge = "error"
       THEN /\ last' = Response(op, eid, 500, "failed")
            /\ mail' = "none"
            /\ UNCHANGED <<payments, refundedOnce, orders>>
       ELSE /\ Len(orders) < MaxOrders
            /\ LET order == Len(orders) + 1
                   values == ConektaPaymentValues(eid, price, status, order)
               IN /\ orders' = Append(orders,
                         [op |-> op, enrollmentId |-> eid,
                          amount |-> ToCents(price), status |-> charge])
                  /\ IF NotNullViolation(values)
                     THEN /\ last' = Response(op, order, 500, charge)
                          /\ mail' = "none"
                          /\ UNCHANGED <<payments, refundedOnce>>
                     ELSE /\ Len(payments) < MaxPayments
                          /\ payments' = Append(payments, InsertedRow(values))
                          /\ refundedOnce' = Append(refundedOnce, FALSE)
                          /\ \E outcome \in (IF status = "completed"
                                             THEN MailOutcomes ELSE {"none"}) :
                                /\ mail' = outcome
                                /\ last' = Response(op, order,
                                       IF outcome = "failed" THEN 500 ELSE 200,
                                       charge)

\* ConektaController.createOrder
CreateOrder(eid, price, charge) ==
    ConektaPay("createOrder", eid, price, charge, StatusOfCharge(charge))

\* ConektaController.processCardPayment
ProcessCardPayment(eid, price, charge) ==
    ConektaPay("processCardPayment", eid, price, charge, StatusOfCharge(charge))

\* ConektaController.processOxxoPayment
ProcessOxxoPayment(eid, price, charge) ==
    ConektaPay("processOxxoPayment", eid, price, charge, "pending")

\* ConektaController.processSpeiPayment
ProcessSpeiPayment(eid, price, charge) ==
    ConektaPay("processSpeiPayment", eid, price, charge, "pending")

\* ----------------------------------------------------------------- refunds
Bump(flags, pid) == [flags EXCEPT ![pid] = TRUE]

\* payment.paymentMethod === 'stripe' && payment.externalPaymentId
IsStripeCharge(row) == row.paymentMethod = "stripe" /\ row.externalPaymentId # NULL

\* the two payment.update({status: 'refunded', refundAmount, ...}) of the route
MarkRefunded(pays, pid, refundAmount) ==
    [pays EXCEPT ![pid].status = "refunded", ![pid].refundAmount = refundAmount]

\* the row marked refunded before the processor has answered
RefundedByStripe_UpdateFirst(pays, pid, refundAmount, gatewayOk) ==
    MarkRefunded(pays, pid, refundAmount)

\* try { stripe.refunds.create(...); payment.update(...) } catch { 500 }
RefundedByStripe(pays, pid, refundAmount, gatewayOk) ==
    IF gatewayOk THEN MarkRefunded(pays, pid, refundAmount) ELSE pays

\* POST /payments/:id/refund (admin); gatewayOk is the outcome of
\* stripe.refunds.create when it is called
RefundPayment(pid, refundAmount, gatewayOk) ==
    /\ UNCHANGED <<enrollments, intents>>
    /\ IF pid \notin DOMAIN payments
       THEN /\ Answer("refundPayment", pid, 404, "none")
            /\ UNCHANGED <<payments, refundedOnce>>
       ELSE IF payments[pid].status # "completed"
       THEN /\ Answer("refundPayment", pid, 400, "none")
            /\ UNCHANGED <<payments, refundedOnce>>
       ELSE IF refundAmount > payments[pid].amount
       THEN /\ Answer("refundPayment", pid, 400, "none")
            /\ UNCHANGED <<payments, refundedOnce>>
       ELSE IF IsStripeCharge(payments[pid])
       THEN /\ payments' = RefundedByStripe(payments, pid, refundAmount, gatewayOk)
            /\ refundedOnce' = IF payments'[pid].status = "refunded"
                               THEN Bump(refundedOnce, pid) ELSE refundedOnce
            /\ IF gatewayOk
               THEN Answer("refundPayment", pid, 200, "ok")
               ELSE Answer("refundPayment", pid, 500, "failed")
       ELSE /\ payments' = MarkRefunded(payments, pid, refundAmount)
            /\ refundedOnce' = Bump(refundedOnce, pid)
            /\ Answer("refundPayment", pid, 200, "none")

\* ConektaController.refundPayment; gatewayOk is the outcome of
\* Conekta.Charge.find(payment.transactionId) followed by charge.refund()
ConektaRefund(pid, gatewayOk) ==
    /\ UNCHANGED <<enrollments, intents>>
    /\ IF pid \notin DOMAIN payments
       THEN /\ Answer("conektaRefund", pid, 404, "none")
            /\ UNCHANGED <<payments, refundedOnce>>
       ELSE IF payments[pid].status # "completed"
       THEN /\ Answer("conektaRefund", pid, 400, "none")
            /\ UNCHANGED <<payments, refundedOnce>>
       ELSE IF gatewayOk
       THEN /\ payments' = WithStatus(payments, pid, "refunded")
            /\ refundedOnce' = Bump(refundedOnce, pid)
            /\ Answer("conektaRefund", pid, 200, "ok")
       ELSE /\ Answer("conektaRefund", pid, 500, "failed")
            /\ UNCHANGED <<payments, refundedOnce>>

\* ---------------------------------------------------------- specification
EnrollmentRequest ==
    \E s \in Students, c \in Courses, t \in TotalAmounts,
       d \in DiscountAmounts, st \in {"pending", "active"} :
        CreateEnrollment(s, c, t, d, st)

PaymentRequest ==
    \/ \E eid \in EnrollmentIds, a \in PaymentAmounts,
          st \in {"pending", "completed"} :
           CreatePayment(eid, a, "cash", "partial", st)
    \/ \E pid \in PaymentIds, body \in UpdateBodies : UpdatePayment(pid, body)
    \/ \E pid \in PaymentIds, r \in RefundAmounts, ok \in BOOLEAN :
           RefundPayment(pid, r, ok)
    \/ \E pid \in PaymentIds, ok \in BOOLEAN : ConektaRefund(pid, ok)

StripeRequest ==
    \/ \E eid \in EnrollmentIds, a \in PaymentAmounts, ok \in BOOLEAN :
           CreatePaymentIntent(eid, a, ok)
    \/ \E pi \in IntentIds : StripeSucceeded(pi)
    \/ \E pi \in IntentIds : StripeFailed(pi)

ConektaEvent ==
    \/ \E o \in OrderIds : ConektaOrderPaid(o, "sent")
    \/ \E o \in OrderIds : ConektaOrderExpired(o)
    \/ \E o \in OrderIds : ConektaChargeFailed(o)

Next ==
    \/ EnrollmentRequest
    \/ PaymentRequest
    \/ StripeRequest
    \/ ConektaEvent

Spec == Init /\ [][Next]_vars

\* ------------------------------------------- the same handlers, per await
\* POST /payments and the payment_intent.succeeded branch run
\*   findByPk / findOne ; Payment.create ; Payment.sum ; enrollment.update
\* as four awaited calls with no transaction and no lock: another request may
\* run between any two of them.  A slot of `requests` is one such request.

\* POST /payments up to the first write: Enrollment.findByPk and the checks
BeginCreatePayment(r, eid, amount, status) ==
    /\ requests[r].pc = "idle"
    /\ UNCHANGED <<enrollments, payments, intents, refundedOnce>>
    /\ IF eid \notin DOMAIN enrollments
       THEN Answer("createPayment", eid, 404, "none")
       ELSE IF enrollments[eid].status # "active"
       THEN Answer("createPayment", eid, 400, "none")
       ELSE /\ requests' = [requests EXCEPT ![r] =
                   [pc |-> "create", op |-> "createPayment", eid |-> eid, pid |-> 0,
                    amount |-> amount, status |-> status, ext |-> NULL,
                    totalAmountRead |-> enrollments[eid].totalAmount,
                    totalPaid |-> 0]]
            /\ UNCHANGED <<last, orders, mail>>

\* the webhook's Payment.findOne({where: {externalPaymentId}})
BeginStripeSucceeded(r, pi) ==
    /\ requests[r].pc = "idle"
    /\ pi \in DOMAIN intents
    /\ UNCHANGED <<enrollments, payments, intents, refundedOnce>>
    /\ IF FoundByExternalId(payments, pi)
       THEN Answer("stripeSucceeded", pi, 200, "none")
       ELSE /\ requests' = [requests EXCEPT ![r] =
                   [pc |-> "findEnrollment", op |-> "stripeSucceeded",
                    eid |-> intents[pi].enrollmentId, pid |-> 0,
                    amount |-> FromCents(intents[pi].amount),
                    status |-> "completed", ext |-> pi,
                    totalAmountRead |-> 0, totalPaid |-> 0]]
            /\ UNCHANGED <<last, orders, mail>>

\* the webhook's Enrollment.findByPk(paymentIntent.metadata.enrollmentId)
StripeFindEnrollment(r) ==
    /\ requests[r].pc = "findEnrollment"
    /\ UNCHANGED <<enrollments, payments, intents, refundedOnce, orders, mail>>
    /\ IF requests[r].eid \notin DOMAIN enrollments
       THEN /\ last' = Response("stripeSucceeded", requests[r].ext, 200, "none")
            /\ requests' = [requests EXCEPT ![r] = Idle]
       ELSE /\ requests' = [requests EXCEPT ![r].pc = "create",
                   ![r].totalAmountRead = enrollments[requests[r].eid].totalAmount]
            /\ UNCHANGED last

\* await Payment.create({...})
CreateRow(r) ==
    /\ requests[r].pc = "create"
    /\ Len(payments) < MaxPayments
    /\ payments' = Append(payments,
           NewPayment(requests[r].eid, requests[r].amount,
                      IF requests[r].op = "stripeSucceeded" THEN "stripe" ELSE "cash",
                      "partial", requests[r].status, requests[r].ext,
                      Len(payments) + 1))
    /\ refundedOnce' = Append(refundedOnce, FALSE)
    /\ requests' = [requests EXCEPT ![r].pc = "sum",
                                    ![r].pid = Len(payments) + 1]
    /\ UNCHANGED <<enrollments, intents, last, orders, mail>>

\* const totalPaid = await Payment.sum('amount', {where: ...})
SumRows(r) ==
    /\ requests[r].pc = "sum"
    /\ requests' = [requests EXCEPT ![r].pc = "update",
                       ![r].totalPaid = PaymentSum(payments, requests[r].eid)]
    /\ UNCHANGED <<enrollments, payments, intents, refundedOnce, last, orders,
                   mail>>

\* await enrollment.update({paidAmount: totalPaid, paymentStatus, ...}); respond
UpdateEnrollmentRow(r) ==
    /\ requests[r].pc = "update"
    /\ enrollments' = Reconciled(enrollments, requests[r].eid,
                          requests[r].totalAmountRead, requests[r].totalPaid)
    /\ last' = IF requests[r].op = "createPayment"
               THEN Response("createPayment", requests[r].pid, 201, "none")
               ELSE Response("stripeSucceeded", requests[r].ext, 200, "none")
    /\ requests' = [requests EXCEPT ![r] = Idle]
    /\ UNCHANGED <<payments, intents, refundedOnce, orders, mail>>

NextConc ==
    \/ EnrollmentRequest
    \/ \E eid \in EnrollmentIds, a \in PaymentAmounts, ok \in BOOLEAN :
           CreatePaymentIntent(eid, a, ok)
    \/ \E r \in RequestSlots, eid \in EnrollmentIds, a \in PaymentAmounts,
          st \in {"pending", "completed"} : BeginCreatePayment(r, eid, a, st)
    \/ \E r \in RequestSlots, pi \in IntentIds : BeginStripeSucceeded(r, pi)
    \/ \E r \in RequestSlots : StripeFindEnrollment(r)
    \/ \E r \in RequestSlots : CreateRow(r)
    \/ \E r \in RequestSlots : SumRows(r)
    \/ \E r \in RequestSlots : UpdateEnrollmentRow(r)

SpecConc == Init /\ [][NextConc]_vars

\* ------------------------------------- gateway entry points and webhooks
\* the bodies of PUT /payments/:id that give a row a Conekta order id
OrderIdBodies == {UpdateBody("absent", OrderTxn(k), -1) : k \in OrderIds}

ManualRequest ==
    \/ \E eid \in EnrollmentIds, a \in PaymentAmounts,
          st \in {"pending", "completed"} :
           CreatePayment(eid, a, "cash", "partial", st)
    \/ \E pid \in PaymentIds, body \in OrderIdBodies : UpdatePayment(pid, body)

InitiationRequest ==
    \/ \E eid \in EnrollmentIds, a \in PaymentAmounts, ok \in BOOLEAN :
           CreatePaymentIntent(eid, a, ok)
    \/ \E eid \in EnrollmentIds, price \in CoursePrices, ch \in CardCharges :
           CreateOrder(eid, price, ch)
    \/ \E eid \in EnrollmentIds, price \in CoursePrices, ch \in CardCharges :
           ProcessCardPayment(eid, price, ch)
    \/ \E eid \in EnrollmentIds, price \in CoursePrices, ch \in VoucherCharges :
           ProcessOxxoPayment(eid, price, ch)
    \/ \E eid \in EnrollmentIds, price \in CoursePrices, ch \in VoucherCharges :
           ProcessSpeiPayment(eid, price, ch)

WebhookDelivery ==
    \/ \E sig \in Signatures, t \in StripeEventTypes, pi \in IntentIds,
          ok \in BOOLEAN : StripeWebhook(sig, t, pi, ok)
    \/ \E sig \in Signatures, t \in ConektaEventTypes, o \in OrderIds,
          ok \in BOOLEAN : ConektaWebhook(sig, t, o, ok)

NextGateway ==
    \/ EnrollmentRequest
    \/ ManualRequest
    \/ InitiationRequest
    \/ WebhookDelivery

SpecGateway == Init /\ [][NextGateway]_vars

\* ------------------------------------------------- enrollment life cycle
EnrollmentChange ==
    \/ \E eid \in EnrollmentIds, body \in EnrollmentBodies :
           UpdateEnrollment(eid, body)
    \/ \E eid \in EnrollmentIds : CancelEnrollment(eid)
    \/ \E eid \in EnrollmentIds : CompleteEnrollment(eid)

NextEnroll ==
    \/ EnrollmentRequest
    \/ EnrollmentChange
    \/ \E eid \in EnrollmentIds, a \in PaymentAmounts, type \in PaymentTypes,
          st \in {"pending", "completed"} :
           CreatePayment(eid, a, "cash", type, st)

SpecEnroll == Init /\ [][NextEnroll]_vars

\* ----------------------------------------- voucher payments and settlement
\* the bodies of PUT /payments/:id that give a row an order id or a status
SettleBodies == OrderIdBodies \cup {UpdateBody("completed", AbsentTxn, -1)}

VoucherRequest ==
    \/ \E eid \in EnrollmentIds, price \in CoursePrices, ch \in VoucherCharges :
           ProcessOxxoPayment(eid, price, ch)
    \/ \E eid \in EnrollmentIds, price \in CoursePrices, ch \in VoucherCharges :
           ProcessSpeiPayment(eid, price, ch)

SettleRequest ==
    \/ \E eid \in EnrollmentIds, a \in PaymentAmounts,
          st \in {"pending", "completed"} :
           CreatePayment(eid, a, "cash", "partial", st)
    \/ \E pid \in PaymentIds, body \in SettleBodies : UpdatePayment(pid, body)
    \/ \E eid \in EnrollmentIds, a \in PaymentAmounts, ok \in BOOLEAN :
           CreatePaymentIntent(eid, a, ok)

\* intents that reach the webhook without an enrollment behind them
ForeignIntents ==
    \E eid \in {NULL} \cup EnrollmentIds, a \in PaymentAmounts :
        ForeignIntent(eid, a)

NextSettle ==
    \/ EnrollmentRequest
    \/ SettleRequest
    \/ VoucherRequest
    \/ WebhookDelivery
    \/ ForeignIntents

SpecSettle == Init /\ [][NextSettle]_vars

\* ------------------------------------------------------------- properties
TerminalStatuses == {"completed", "refunded", "failed"}

\* C1: in every reachable state every enrollment's paidAmount is the sum of
\* the amounts of its completed payments
C1_PaidAmountIsSumOfCompleted ==
    \A e \in DOMAIN enrollments :
        enrollments[e].paidAmount = PaymentSum(payments, e)

\* paymentStatus as section 4.1 of the specification gives it
LedgerStatus(enr) ==
    IF enr.totalAmount - enr.discountAmount - enr.paidAmount <= 0 THEN "completed"
    ELSE IF enr.paidAmount > 0 THEN "partial"
    ELSE "pending"

\* C2: a handler that created a payment and recomputed its enrollment (manual
\* creation, Stripe lazy creation) leaves paymentStatus equal to the function
\* of totalAmount - discountAmount - paidAmount
C2_StatusFollowsRemaining ==
    [][(/\ last'.op \in {"createPayment", "stripeSucceeded"}
        /\ Len(payments') > Len(payments))
       => LET e == payments'[Len(payments')].enrollmentId
          IN enrollments'[e].paymentStatus = LedgerStatus(enrollments'[e])]_vars

\* C3: once no create/recompute handler is in flight, every enrollment's
\* paidAmount is the sum of its completed payments, however the handlers
\* interleaved
C3_NoLostContribution ==
    (\A r \in RequestSlots : requests[r].pc = "idle")
        => \A e \in DOMAIN enrollments :
               enrollments[e].paidAmount = PaymentSum(payments, e)

\* C4: a webhook event delivered again right after its first delivery was
\* acknowledged changes no Payment row and no Enrollment row
C4_DuplicateDeliveryChangesNothing ==
    [][last'.repeat => (payments' = payments /\ enrollments' = enrollments)]_vars

\* a second delivery of payment_intent.succeeded has been acknowledged for an
\* intent whose payment the first delivery created
C4_Witness ==
    /\ last.repeat
    /\ last.op = "stripeSucceeded"
    /\ \E p \in DOMAIN payments :
           /\ payments[p].externalPaymentId = last.id
           /\ payments[p].status = "completed"
           /\ enrollments[payments[p].enrollmentId].paidAmount >= payments[p].amount

\* C5: at most one Payment row per externalPaymentId
C5_OneRowPerExternalId ==
    \A p, q \in DOMAIN payments :
        (/\ payments[p].externalPaymentId # NULL
         /\ payments[p].externalPaymentId = payments[q].externalPaymentId)
            => p = q

\* the amount a successful refund refunds: the requested refundAmount on
\* POST /payments/:id/refund, the whole charge on the Conekta refund
RefundedAmount(op, before, after) ==
    IF op = "refundPayment" THEN after.refundAmount ELSE before.amount

\* C6: a successful refund lowers the enrollment's paidAmount by exactly the
\* refunded amount and leaves it non-negative
C6_RefundLowersPaidAmount ==
    [][(last'.op \in RefundOps /\ last'.http = 200)
       => LET p == last'.id
              e == payments[p].enrollmentId
          IN /\ enrollments'[e].paidAmount
                  = enrollments[e].paidAmount
                    - RefundedAmount(last'.op, payments[p], payments'[p])
             /\ enrollments'[e].paidAmount >= 0]_vars

\* C7: a refund request on a payment that is not completed is answered 400
\* with no processor call and no change, and no payment is refunded twice
C7_RefundOnlyCompletedAndOnce ==
    [][last'.op \in RefundOps /\ last'.id \in DOMAIN payments
       => /\ payments[last'.id].status # "completed"
               => /\ last'.http = 400
                  /\ last'.gateway = "none"
                  /\ payments' = payments
                  /\ enrollments' = enrollments
          /\ (last'.http = 200 /\ payments' # payments)
               => ~refundedOnce[last'.id]]_vars

\* C8: a refund request for more than the payment's amount is rejected with
\* nothing changed, and a refunded payment's refundAmount never exceeds its
\* amount
C8_RefundWithinAmount ==
    /\ [][\A pid \in DOMAIN payments, r \in RefundAmounts, ok \in BOOLEAN :
            (RefundPayment(pid, r, ok) /\ r > payments[pid].amount)
                => /\ last'.http = 400
                   /\ payments' = payments
                   /\ enrollments' = enrollments]_vars
    /\ [](\A p \in DOMAIN payments :
            payments[p].status = "refunded"
                => payments[p].refundAmount <= payments[p].amount)

\* the payments a refund handler refunds at the processor: Stripe charges on
\* POST /payments/:id/refund, every payment on the Conekta refund
LiveGatewayRefund(op, row) ==
    (op = "refundPayment" /\ IsStripeCharge(row)) \/ op = "conektaRefund"

ReferredTo(op, id, pays) ==
    IF op \in {"stripeSucceeded", "stripeFailed"}
    THEN {p \in DOMAIN pays : pays[p].externalPaymentId = id}
    ELSE {p \in DOMAIN pays : p = FindByTransactionId(pays, OrderTxn(id))}

\* C10: a webhook event that refers to a Payment already completed, refunded
\* or failed changes nothing and is answered with success
C10_TerminalPaymentUntouched ==
    [][(/\ last'.op \in WebhookOps
        /\ \E p \in ReferredTo(last'.op, last'.id, payments) :
               payments[p].status \in TerminalStatuses)
       => /\ payments' = payments
          /\ enrollments' = enrollments
          /\ last'.http = 200]_vars
\* C11: a delivery whose signature was not made with the endpoint secret
\* (forged or missing) is answered 400 and changes no Payment and no
\* Enrollment, at the Stripe webhook and at the Conekta webhook
C11_UnverifiedWebhookRejected ==
    [][\A sig \in Signatures \ {"valid"}, ok \in BOOLEAN :
         /\ \A t \in StripeEventTypes, pi \in IntentIds :
                StripeWebhook(sig, t, pi, ok)
                    => /\ last'.http = 400
                       /\ payments' = payments
                       /\ enrollments' = enrollments
         /\ \A t \in ConektaEventTypes, o \in OrderIds :
                ConektaWebhook(sig, t, o, ok)
                    => /\ last'.http = 400
                       /\ payments' = payments
                       /\ enrollments' = enrollments]_vars

\* C12: a delivery whose signature was verified is answered with success,
\* also when the processing of the event raises an error
C12_VerifiedWebhookAcknowledged ==
    [][\A ok \in BOOLEAN :
         /\ \A t \in StripeEventTypes, pi \in IntentIds :
                StripeWebhook("valid", t, pi, ok) => last'.http = 200
         /\ \A t \in ConektaEventTypes, o \in OrderIds :
                ConektaWebhook("valid", t, o, ok) => last'.http = 200]_vars

\* the enrollment of payment p carries the sum of its completed payments,
\* p's amount among them, and the paymentStatus of section 4.1
ReconciledWith(enrs, pays, p) ==
    LET e == pays[p].enrollmentId
    IN /\ e \in DOMAIN enrs
       /\ enrs[e].paidAmount = PaymentSum(pays, e)
       /\ enrs[e].paidAmount >= pays[p].amount
       /\ enrs[e].paymentStatus = LedgerStatus(enrs[e])

\* C13: order.paid for an order that the OXXO or the SPEI handler created
\* leaves the order's Payment completed and its Enrollment recomputed
C13_VoucherPaidReconciles ==
    [][\A o \in DOMAIN orders :
         (/\ orders[o].op \in {"processOxxoPayment", "processSpeiPayment"}
          /\ ConektaWebhook("valid", "order.paid", o, TRUE))
            => \E p \in DOMAIN payments' :
                  /\ payments'[p].transactionId = OrderTxn(o)
                  /\ payments'[p].status = "completed"
                  /\ ReconciledWith(enrollments', payments', p)]_vars

\* C14: a success event for an external id that no Payment row carries creates
\* a completed Payment with that id and the event's amount, and the sum of
\* the completed payments is written to the event's Enrollment
C14_SuccessWithoutRowCreatesPayment ==
    [][/\ \A pi \in DOMAIN intents :
            (/\ StripeWebhook("valid", "payment_intent.succeeded", pi, TRUE)
             /\ ~FoundByExternalId(payments, pi)
             /\ intents[pi].enrollmentId \in DOMAIN enrollments)
               => \E p \in DOMAIN payments' :
                     /\ payments'[p].externalPaymentId = pi
                     /\ payments'[p].status = "completed"
                     /\ payments'[p].amount = FromCents(intents[pi].amount)
                     /\ enrollments'[payments'[p].enrollmentId].paidAmount
                            = PaymentSum(payments', payments'[p].enrollmentId)
       /\ \A o \in DOMAIN orders :
            (/\ ConektaWebhook("valid", "order.paid", o, TRUE)
             /\ FindByTransactionId(payments, OrderTxn(o)) = 0)
               => \E p \in DOMAIN payments' :
                     /\ payments'[p].transactionId = OrderTxn(o)
                     /\ payments'[p].status = "completed"
                     /\ payments'[p].amount = FromCents(orders[o].amount)
                     /\ enrollments'[payments'[p].enrollmentId].paidAmount
                            = PaymentSum(payments', payments'[p].enrollmentId)]_vars

\* C15: the Payment that a successful POST /payments created is completed and
\* its amount is part of the enrollment's paidAmount
C15_ManualPaymentCompleted ==
    (last.op = "createPayment" /\ last.http = 201)
        => /\ payments[last.id].status = "completed"
           /\ enrollments[payments[last.id].enrollmentId].paidAmount
                  >= payments[last.id].amount

\* C16: every way of starting a payment (manual POST, Stripe intent, the four
\* Conekta handlers) on an enrollment that is not active answers 400 and
\* creates no Payment row, no intent and no order
C16_InactiveEnrollmentRefused ==
    [][\A eid \in DOMAIN enrollments :
         enrollments[eid].status # "active"
            => ((\/ \E a \in PaymentAmounts, st \in {"pending", "completed"} :
                       CreatePayment(eid, a, "cash", "partial", st)
                 \/ \E a \in PaymentAmounts, ok \in BOOLEAN :
                       CreatePaymentIntent(eid, a, ok)
                 \/ \E price \in CoursePrices, ch \in CardCharges :
                       CreateOrder(eid, price, ch)
                          \/ ProcessCardPayment(eid, price, ch)
                 \/ \E price \in CoursePrices, ch \in VoucherCharges :
                       ProcessOxxoPayment(eid, price, ch)
                          \/ ProcessSpeiPayment(eid, price, ch))
                => /\ last'.http = 400
                   /\ payments' = payments
                   /\ intents' = intents
                   /\ orders' = orders)]_vars

\* C17: POST /enrollments for a (student, course) that has an enrollment not
\* cancelled is answered 409 and creates nothing, and no pair ever has two
\* enrollments that are not cancelled
C17_OneLiveEnrollmentPerPair ==
    /\ [][\A s \in Students, c \in Courses, t \in TotalAmounts,
             d \in DiscountAmounts, st \in {"pending", "active"} :
            (/\ CreateEnrollment(s, c, t, d, st)
             /\ \E e \in DOMAIN enrollments :
                    /\ enrollments[e].studentId = s
                    /\ enrollments[e].courseId = c
                    /\ enrollments[e].status # "cancelled")
               => /\ last'.http = 409
                  /\ enrollments' = enrollments]_vars
    /\ [](\A e, f \in DOMAIN enrollments :
            (/\ enrollments[e].studentId = enrollments[f].studentId
             /\ enrollments[e].courseId = enrollments[f].courseId
             /\ enrollments[e].status # "cancelled"
             /\ enrollments[f].status # "cancelled") => e = f)

ConektaPayOps == {"createOrder", "processCardPayment", "processOxxoPayment",
                  "processSpeiPayment"}

\* the Payment rows that record the charge a gateway entry point answered with
RowsOfCharge(op, id, pays) ==
    IF op = "createPaymentIntent"
    THEN {p \in DOMAIN pays : pays[p].externalPaymentId = id}
    ELSE {p \in DOMAIN pays : pays[p].transactionId = OrderTxn(id)}

\* C18: when a gateway entry point (Stripe intent creation, the four Conekta
\* handlers) has answered with success, a Payment row records the charge and
\* no other row has its transactionId
C18_AdapterSuccessHasRow ==
    (last.op \in ConektaPayOps \cup {"createPaymentIntent"} /\ last.http = 200)
        => \E p \in RowsOfCharge(last.op, last.id, payments) :
              \A q \in DOMAIN payments :
                  payments[q].transactionId = payments[p].transactionId => q = p

\* C19: when a Conekta handler has answered with an error, no order exists at
\* Conekta that no Payment row records
C19_NoChargeWithoutRecord ==
    (last.op \in ConektaPayOps /\ last.http = 500)
        => \A o \in DOMAIN orders :
              FindByTransactionId(payments, OrderTxn(o)) # 0

\* C20: when the card handler has answered for a charge the processor took
\* or declined, a Payment row records it as completed or failed, failed when
\* the charge was declined
C20_CardResolvesWithinRequest ==
    (last.op = "processCardPayment" /\ last.gateway \in {"paid", "declined"})
        => \E p \in DOMAIN payments :
              /\ payments[p].transactionId = OrderTxn(last.id)
              /\ payments[p].status =
                     IF last.gateway = "paid" THEN "completed" ELSE "failed"

VoucherOps == {"processOxxoPayment", "processSpeiPayment"}

\* the row records an order that the OXXO or the SPEI handler created
IsVoucherRow(row) ==
    \E o \in DOMAIN orders :
        orders[o].op \in VoucherOps /\ row.transactionId = OrderTxn(o)

\* C21: once the OXXO or the SPEI handler has had its order accepted, a
\* pending Payment records the order; and the status of such a Payment
\* becomes completed, failed or expired only in the step of a webhook event
C21_VoucherResolvedByWebhookOnly ==
    /\ []((last.op \in VoucherOps /\ last.gateway = "pending_payment")
            => \E p \in DOMAIN payments :
                  /\ payments[p].transactionId = OrderTxn(last.id)
                  /\ payments[p].status = "pending")
    /\ [][\A p \in DOMAIN payments :
            (/\ IsVoucherRow(payments[p])
             /\ payments'[p].status # payments[p].status
             /\ payments'[p].status \in {"completed", "failed", "expired"})
               => last'.op \in WebhookOps]_vars

C23_TotalAmountFixed ==
    [][\A e \in DOMAIN enrollments :
          enrollments'[e].totalAmount = enrollments[e].totalAmount]_vars

\* the recomputation of enrollment e as the handlers run it
Recomputed(enrs, pays, e) ==
    Reconciled(enrs, e, enrs[e].totalAmount, PaymentSum(pays, e))

EndedStatuses == {"cancelled", "completed"}

\* C27: cancel and complete on an enrollment that is cancelled or completed
\* answer 400 and leave it unchanged; neither action removes a row, and
\* neither changes the status of a cancelled or completed enrollment
C27_CancelCompleteGuarded ==
    [][\A eid \in DOMAIN enrollments :
         /\ (CancelEnrollment(eid) /\ enrollments[eid].status \in EndedStatuses)
               => last'.http = 400 /\ enrollments' = enrollments
         /\ (CompleteEnrollment(eid) /\ enrollments[eid].status \in EndedStatuses)
               => last'.http = 400 /\ enrollments' = enrollments
         /\ last'.op \in {"cancelEnrollment", "completeEnrollment"}
               => /\ Len(enrollments') = Len(enrollments)
                  /\ enrollments[eid].status \in EndedStatuses
                        => enrollments'[eid].status = enrollments[eid].status]_vars

\* a cancel of a completed enrollment was refused
C27_Witness ==
    /\ last.op = "cancelEnrollment"
    /\ last.http = 400
    /\ last.id \in DOMAIN enrollments
    /\ enrollments[last.id].status = "completed"

\* C28: POST /enrollments for a (student, course) whose enrollments are all
\* cancelled is answered 201 and adds an enrollment row
C28_ReenrollAfterCancel ==
    [][\A s \in Students, c \in Courses, t \in TotalAmounts,
          d \in DiscountAmounts, st \in {"pending", "active"} :
         (/\ CreateEnrollment(s, c, t, d, st)
          /\ \E e \in DOMAIN enrollments :
                 enrollments[e].studentId = s /\ enrollments[e].courseId = c
          /\ \A e \in DOMAIN enrollments :
                 (enrollments[e].studentId = s /\ enrollments[e].courseId = c)
                     => enrollments[e].status = "cancelled")
            => /\ last'.http = 201
               /\ Len(enrollments') = Len(enrollments) + 1]_vars

\* C29: a successful POST /payments with paymentType refund leaves the
\* enrollment's paidAmount no greater than it was
C29_RefundTypeNeverRaisesPaid ==
    [][\A eid \in DOMAIN enrollments, a \in PaymentAmounts,
          st \in {"pending", "completed"} :
         (CreatePayment(eid, a, "cash", "refund", st) /\ last'.http = 201)
            => enrollments'[eid].paidAmount <= enrollments[eid].paidAmount]_vars

\* the status changes of a Payment that the documentation lists
DocumentedMoves ==
    {<<"pending", "completed">>, <<"pending", "failed">>,
     <<"pending", "expired">>, <<"completed", "refunded">>}

\* C25: whenever a step changes the status of a Payment, the change is
\* pending to completed, pending to failed or expired, or completed to
\* refunded
C25_DocumentedTransitionsOnly ==
    [][\A p \in DOMAIN payments :
          payments'[p].status # payments[p].status
             => <<payments[p].status, payments'[p].status>> \in DocumentedMoves]_vars

\* C26: in every reachable state every refunded Payment has a refundAmount
\* above 0 (refundedAt is written by the updates that write refundAmount and
\* by no other)
C26_RefundedHasRefundFields ==
    \A p \in DOMAIN payments :
        payments[p].status = "refunded" => payments[p].refundAmount > 0

\* the handler answered with success and no Payment or Enrollment row was
\* changed or created
AcknowledgedUnchanged ==
    /\ last'.http = 200
    /\ payments' = payments
    /\ enrollments' = enrollments

\* C30: a signed webhook event, processed without a raised error, that maps
\* to no local row changes nothing and is answered with success: an event of
\* an unhandled type, a Conekta event whose order id is on no Payment, a
\* Stripe failed event whose intent id is on no Payment, a Stripe succeeded
\* event whose intent is on no Payment and names no existing enrollment
C30_UnmappableWebhookIsNoOp ==
    [][/\ \A pi \in IntentIds :
            /\ (last'.op = "stripeOther" /\ last'.id = pi)
                  => (StripeWebhook("valid", "other", pi, TRUE)
                         => AcknowledgedUnchanged)
            /\ (/\ last'.op = "stripeFailed" /\ last'.id = pi
                /\ ~FoundByExternalId(payments, pi))
                  => (StripeWebhook("valid", "payment_intent.payment_failed",
                                    pi, TRUE) => AcknowledgedUnchanged)
            /\ (/\ last'.op = "stripeSucceeded" /\ last'.id = pi
                /\ pi \in DOMAIN intents
                /\ ~FoundByExternalId(payments, pi)
                /\ intents[pi].enrollmentId \notin DOMAIN enrollments)
                  => (StripeWebhook("valid", "payment_intent.succeeded",
                                    pi, TRUE) => AcknowledgedUnchanged)
       /\ \A o \in OrderIds, sig \in {"valid", "forged"} :
            /\ (last'.op = "conektaOther" /\ last'.id = o)
                  => (ConektaWebhook(sig, "other", o, TRUE)
                         => AcknowledgedUnchanged)
            /\ (/\ last'.op \in {"conektaOrderPaid", "conektaOrderExpired",
                                  "conektaChargeFailed"}
                /\ last'.id = o
                /\ FindByTransactionId(payments, OrderTxn(o)) = 0)
                  => \A t \in ConektaEventTypes \ {"other"} :
                        ConektaWebhook(sig, t, o, TRUE)
                           => AcknowledgedUnchanged]_vars

\* a succeeded event for an intent that names no enrollment was answered with
\* success while Payment rows exist and none carries the intent
C30_Witness ==
    /\ last.op = "stripeSucceeded"
    /\ last.http = 200
    /\ last.id \in DOMAIN intents
    /\ intents[last.id].enrollmentId \notin DOMAIN enrollments
    /\ ~FoundByExternalId(payments, last.id)
    /\ payments # <<>>
====
